---- MODULE Spec2Model ----
(***************************************************************************)
(* Model of the rsync delta engine of src/rsync.go (first version in the   *)
(* file, lines 1-770): the signer GetFileHashInfo, the matcher             *)
(* FileHashInfo.Analyse with its FileReader cache, and the reconstructor   *)
(* FileMerger.  Files are byte sequences; MD5 is modelled as a             *)
(* collision-free digest (the digest of a byte string is the string        *)
(* itself, wrapped), Adler-32 is computed as hash/adler32 computes it.     *)
(* The signature codec (HashInfo.Write / HashInfo.Read) is modelled byte by *)
(* byte.  The earlier Analyse of src/unnamed/part_000 has its own actions   *)
(* and specification (SpecPart0).                                           *)
(***************************************************************************)
EXTENDS Integers, Sequences, FiniteSets, TLC

\* ---------------------------------------------------------------- bounds
MaxT == 4          \* longest target file T
MaxS == 5          \* longest source file S
MaxB == 4          \* largest block size
Byte == {0, 1}     \* byte values used in files
TamperMaxT == 3    \* longest target when an instruction is tampered with
TamperMaxS == 3    \* longest source when an instruction is tampered with
MergerMaxT == 1    \* longest target when the merger is driven directly
MaxWrites == 2
MaxH == 2
WireMaxT == 2     \* Write calls when the merger is driven directly
SmallB == {1, 2}   \* block sizes of the two smaller scenarios

\* ------------------------------------------------------ program constants
AdlerMod == 65521
AnalyseTypeOpen == 1
AnalyseTypeData == 2
AnalyseTypeIndex == 4
AnalyseTypeClose == 8
MD5Size == 16

\* ---------------------------------------------------------------- helpers
Min(a, b) == IF a < b THEN a ELSE b

SeqsUpTo(n) == UNION {[1..k -> Byte] : k \in 0..n}

\* Bytes [from, from+n) of a 0-based byte string s (n clipped to the end).
Slice(s, from, n) == SubSeq(s, from + 1, Min(Len(s), from + n))

NoFile == [exists |-> FALSE, data |-> <<>>]
FileOf(d) == [exists |-> TRUE, data |-> d]

\* ------------------------------------------------------------------ MD5
NilMD5 == [set |-> FALSE, of |-> <<>>]
MD5Sum(dat) == [set |-> TRUE, of |-> dat]

\* ------------------------------------------------------------- adler32
AdlerNew == [a |-> 1, b |-> 0]

AdlerWrite1(h, x) ==
    LET a == (h.a + x) % AdlerMod
    IN  [a |-> a, b |-> (h.b + a) % AdlerMod]

RECURSIVE AdlerWrite(_, _)
AdlerWrite(h, dat) ==
    IF dat = <<>> THEN h
    ELSE AdlerWrite(AdlerWrite1(h, Head(dat)), Tail(dat))

Sum32(h) == h.b * 65536 + h.a

Checksum(dat) == Sum32(AdlerWrite(AdlerNew, dat))

\* ------------------------------------------------- AnalyseInfo type bits
IsOpen(hi) == (hi.Type \div AnalyseTypeOpen) % 2 = 1
IsData(hi) == (hi.Type \div AnalyseTypeData) % 2 = 1
IsIndex(hi) == (hi.Type \div AnalyseTypeIndex) % 2 = 1
IsClose(hi) == (hi.Type \div AnalyseTypeClose) % 2 = 1

\* A zero-valued AnalyseInfo (&AnalyseInfo{HashFile: this}).
NewInfo == [Type |-> 0, Off |-> 0, Index |-> 0, Data |-> <<>>, Hash |-> NilMD5]

\* ------------------------------------------------------------ the signer
\* NewFileHashInfo(file, blockSize int): the size is converted to uint16.
NewFileHashInfo(bsiz) == bsiz % 65536

\* FileHashInfo.Open on a file f: an absent or empty file is not opened.
Open(f, bsiz) ==
    IF bsiz = 0 THEN [err |-> TRUE, File |-> FALSE, FileSize |-> 0, Count |-> 0]
    ELSE IF ~f.exists THEN [err |-> FALSE, File |-> FALSE, FileSize |-> 0, Count |-> 0]
    ELSE IF Len(f.data) = 0 THEN [err |-> FALSE, File |-> FALSE, FileSize |-> 0, Count |-> 0]
    ELSE [err |-> FALSE, File |-> TRUE, FileSize |-> Len(f.data),
          Count |-> IF Len(f.data) % bsiz = 0 THEN Len(f.data) \div bsiz
                    ELSE (Len(f.data) \div bsiz) + 1]

\* FillHashInfo storing the low half of the checksum in H2 as well.
RECURSIVE FillLoopLowH2(_, _, _, _, _, _)
FillLoopLowH2(dat, bsiz, count, i, idx, acc) ==
    IF i >= count THEN acc
    ELSE LET blk == Slice(dat, i * bsiz, bsiz)
         IN  IF Len(blk) # bsiz THEN acc
             ELSE LET acs == Checksum(blk)
                      hb == [Idx |-> idx, Off |-> i,
                             H1 |-> acs % 65536,
                             H2 |-> acs % 65536,
                             H3 |-> MD5Sum(blk)]
                      fed == [acc EXCEPT !.fmd5 = acc.fmd5 \o blk]
                  IN  IF \E b \in acc.blocks : b.H3 = hb.H3
                      THEN FillLoopLowH2(dat, bsiz, count, i + 1, idx, fed)
                      ELSE FillLoopLowH2(dat, bsiz, count, i + 1, idx + 1,
                                         [fed EXCEPT !.blocks = acc.blocks \cup {hb}])

\* The loop of FillHashInfo from block position i on.  acc.blocks is the map
\* this.Blocks (one entry per distinct digest), acc.fmd5 the bytes written
\* to the whole-file hash so far.
RECURSIVE FillLoop(_, _, _, _, _, _)
FillLoop(dat, bsiz, count, i, idx, acc) ==
    IF i >= count THEN acc
    ELSE LET blk == Slice(dat, i * bsiz, bsiz)
         IN  IF Len(blk) # bsiz THEN acc
             ELSE LET acs == Checksum(blk)
                      hb == [Idx |-> idx, Off |-> i,
                             H1 |-> acs % 65536,
                             H2 |-> (acs \div 65536) % 65536,
                             H3 |-> MD5Sum(blk)]
                      fed == [acc EXCEPT !.fmd5 = acc.fmd5 \o blk]
                  IN  IF \E b \in acc.blocks : b.H3 = hb.H3
                      THEN FillLoop(dat, bsiz, count, i + 1, idx, fed)
                      ELSE FillLoop(dat, bsiz, count, i + 1, idx + 1,
                                    [fed EXCEPT !.blocks = acc.blocks \cup {hb}])

FillHashInfo(f, bsiz, o) ==
    IF o.FileSize = 0 THEN [blocks |-> {}, MD5 |-> NilMD5]
    ELSE LET acc == FillLoop(f.data, bsiz, o.Count, 0, 0, [blocks |-> {}, fmd5 |-> <<>>])
         IN  [blocks |-> acc.blocks, MD5 |-> MD5Sum(acc.fmd5)]

\* GetHashInfo: the map values sorted by Idx.
GetHashInfo(fill, bsiz) ==
    [Blocks |-> [k \in 1..Cardinality(fill.blocks) |->
                    CHOOSE b \in fill.blocks :
                        Cardinality({c \in fill.blocks : c.Idx < b.Idx}) = k - 1],
     MD5 |-> fill.MD5,
     BlockSize |-> bsiz]

GetFileHashInfo(f, blockSize) ==
    LET bsiz == NewFileHashInfo(blockSize)
        o == Open(f, bsiz)
    IN  IF o.err THEN [err |-> TRUE, hi |-> [Blocks |-> <<>>, MD5 |-> NilMD5, BlockSize |-> bsiz]]
        ELSE [err |-> FALSE, hi |-> GetHashInfo(FillHashInfo(f, bsiz, o), bsiz)]

\* ------------------------------------------------- the signature codec
\* The md5.Size bytes of a digest: the digest of dat is written as the length
\* of dat, dat itself and zero padding (an injective stand-in for MD5); a nil
\* slice has no bytes.
RECURSIVE Zeros(_)
Zeros(n) == IF n <= 0 THEN <<>> ELSE <<0>> \o Zeros(n - 1)

DigestBytes(h) ==
    IF ~h.set THEN <<>>
    ELSE <<Len(h.of)>> \o h.of \o Zeros(MD5Size - 1 - Len(h.of))

DigestOfBytes(bs) == MD5Sum(SubSeq(bs, 2, 1 + bs[1]))

tobyte16(v) == <<v % 256, (v \div 256) % 256>>

touint16(b) == b[1] + b[2] * 256

tobyte32(v) ==
    <<v % 256, (v \div 256) % 256, (v \div 65536) % 256, (v \div 16777216) % 256>>

touint32(b) == b[1] + b[2] * 256 + b[3] * 65536 + b[4] * 16777216

\* bytes.Buffer.Read(p): copies up to len(p) bytes over the front of p; EOF
\* when the buffer is empty and p is not.
BufRead(buf, p) ==
    IF buf = <<>>
    THEN [err |-> p # <<>>, p |-> p, buf |-> buf]
    ELSE LET n == Min(Len(p), Len(buf))
         IN  [err |-> FALSE,
              p |-> SubSeq(buf, 1, n) \o SubSeq(p, n + 1, Len(p)),
              buf |-> SubSeq(buf, n + 1, Len(buf))]

HashBlockWrite(b) ==
    tobyte16(b.H1) \o tobyte16(b.H2) \o tobyte32(b.Off) \o DigestBytes(b.H3)

\* HashBlock.Read taking H2 from the first two bytes and H1 from the next.
HashBlockReadSwapped(idx, buf) ==
    LET zero == [Idx |-> idx, Off |-> 0, H1 |-> 0, H2 |-> 0, H3 |-> DigestOfBytes(Zeros(MD5Size))]
        r1 == BufRead(buf, <<0, 0>>)
        r2 == BufRead(r1.buf, r1.p)
        r3 == BufRead(r2.buf, <<0, 0, 0, 0>>)
        r4 == BufRead(r3.buf, Zeros(MD5Size))
        b1 == [zero EXCEPT !.H2 = touint16(r1.p)]
        b2 == [b1 EXCEPT !.H1 = touint16(r2.p)]
        b3 == [b2 EXCEPT !.Off = touint32(r3.p)]
        b4 == [b3 EXCEPT !.H3 = DigestOfBytes(r4.p)]
    IN  IF r1.err THEN [err |-> TRUE, b |-> zero, buf |-> r1.buf]
        ELSE IF r2.err THEN [err |-> TRUE, b |-> b1, buf |-> r2.buf]
        ELSE IF r3.err THEN [err |-> TRUE, b |-> b2, buf |-> r3.buf]
        ELSE IF r4.err THEN [err |-> TRUE, b |-> b3, buf |-> r4.buf]
        ELSE [err |-> FALSE, b |-> b4, buf |-> r4.buf]

\* HashBlock.Read(idx, buf): (err, block, rest of the buffer).  Idx is not on
\* the wire, it is the position the caller passes.
HashBlockRead(idx, buf) ==
    LET zero == [Idx |-> idx, Off |-> 0, H1 |-> 0, H2 |-> 0, H3 |-> DigestOfBytes(Zeros(MD5Size))]
        r1 == BufRead(buf, <<0, 0>>)
        r2 == BufRead(r1.buf, r1.p)
        r3 == BufRead(r2.buf, <<0, 0, 0, 0>>)
        r4 == BufRead(r3.buf, Zeros(MD5Size))
        b1 == [zero EXCEPT !.H1 = touint16(r1.p)]
        b2 == [b1 EXCEPT !.H2 = touint16(r2.p)]
        b3 == [b2 EXCEPT !.Off = touint32(r3.p)]
        b4 == [b3 EXCEPT !.H3 = DigestOfBytes(r4.p)]
    IN  IF r1.err THEN [err |-> TRUE, b |-> zero, buf |-> r1.buf]
        ELSE IF r2.err THEN [err |-> TRUE, b |-> b1, buf |-> r2.buf]
        ELSE IF r3.err THEN [err |-> TRUE, b |-> b2, buf |-> r3.buf]
        ELSE IF r4.err THEN [err |-> TRUE, b |-> b3, buf |-> r4.buf]
        ELSE [err |-> FALSE, b |-> b4, buf |-> r4.buf]

NewHashInfo == [Blocks |-> <<>>, MD5 |-> NilMD5, BlockSize |-> 0]

RECURSIVE WriteBlocks(_)
WriteBlocks(bs) ==
    IF bs = <<>> THEN <<>> ELSE HashBlockWrite(Head(bs)) \o WriteBlocks(Tail(bs))

\* HashInfo.Write: the bytes appended to the buffer (none when MD5 is nil).
HashInfoWrite(hi) ==
    IF ~hi.MD5.set THEN <<>>
    ELSE DigestBytes(hi.MD5)
         \o <<hi.BlockSize % 256, (hi.BlockSize \div 256) % 256>>
         \o WriteBlocks(hi.Blocks)

\* The loop of HashInfo.Read: blocks are read while the buffer has bytes.
RECURSIVE ReadBlocks(_, _, _)
ReadBlocks(hi, idx, buf) ==
    IF buf = <<>> THEN [err |-> FALSE, hi |-> hi]
    ELSE LET r == HashBlockRead(idx, buf)
         IN  IF r.err THEN [err |-> TRUE, hi |-> hi]
             ELSE ReadBlocks([hi EXCEPT !.Blocks = Append(hi.Blocks, r.b)], idx + 1, r.buf)

\* HashInfo.Read on hi: (err, hi afterwards).  An empty buffer is accepted
\* and leaves hi as it is.
HashInfoRead(hi, buf) ==
    IF buf = <<>> THEN [err |-> FALSE, hi |-> hi]
    ELSE LET r1 == BufRead(buf, IF hi.MD5.set THEN DigestBytes(hi.MD5) ELSE Zeros(MD5Size))
             h1 == [hi EXCEPT !.MD5 = DigestOfBytes(r1.p)]
             r2 == BufRead(r1.buf, <<0, 0>>)
             h2 == [h1 EXCEPT !.BlockSize = touint16(r2.p)]
         IN  IF r1.err THEN [err |-> TRUE, hi |-> h1]
             ELSE IF r2.err THEN [err |-> TRUE, hi |-> h1]
             ELSE ReadBlocks(h2, 0, r2.buf)

\* ------------------------------------------------------------- equality
\* HashBlockEqual: the second test compares b2.H2 with itself.
HashBlockEqual(b1, b2) ==
    IF b1.H1 # b2.H1 THEN FALSE
    ELSE IF b2.H2 # b2.H2 THEN FALSE
    ELSE b1.H3 = b2.H3

\* HashInfoEqual: two signatures without MD5 are equal whatever else they
\* hold; otherwise MD5, BlockSize, the number of blocks and each pair of
\* blocks are compared.
HashInfoEqual(h1, h2) ==
    IF ~h1.MD5.set /\ ~h2.MD5.set THEN TRUE
    ELSE IF h1.MD5 # h2.MD5 THEN FALSE
    ELSE IF h1.BlockSize # h2.BlockSize THEN FALSE
    ELSE IF Len(h1.Blocks) # Len(h2.Blocks) THEN FALSE
    ELSE \A i \in DOMAIN h1.Blocks : HashBlockEqual(h1.Blocks[i], h2.Blocks[i])

\* ------------------------------------------------------- the block index
\* GetMap keeping only the first block of each bucket.
GetMapFirstOnly(hi) ==
    [h \in {hi.Blocks[k].H1 : k \in DOMAIN hi.Blocks} |->
        SubSeq(SelectSeq(hi.Blocks, LAMBDA v : v.H1 = h), 1, 1)]

\* GetMap: blocks grouped by H1, each bucket in block order.
GetMap(hi) ==
    [h \in {hi.Blocks[k].H1 : k \in DOMAIN hi.Blocks} |->
        SelectSeq(hi.Blocks, LAMBDA v : v.H1 = h)]

\* The result (Idx, found) of a range loop that returns at the first entry of
\* the bucket passing the test: m holds the passing entries in bucket order.
FirstOf(m) ==
    IF m = <<>> THEN [o |-> 0, b |-> FALSE] ELSE [o |-> m[1].Idx, b |-> TRUE]

PassH1(mp, h) ==
    LET h1 == h % 65536
    IN  IF h1 \notin DOMAIN mp THEN [o |-> 0, b |-> FALSE]
        ELSE FirstOf(SelectSeq(mp[h1], LAMBDA v : v.H1 = h1))

\* PassH2 comparing H2 with the low half of the checksum.
PassH2LowHalf(mp, h) ==
    LET h1 == h % 65536
        h2 == h % 65536
    IN  IF h1 \notin DOMAIN mp THEN [o |-> 0, b |-> FALSE]
        ELSE FirstOf(SelectSeq(mp[h1], LAMBDA v : v.H1 = h1 /\ v.H2 = h2))

PassH2(mp, h) ==
    LET h1 == h % 65536
        h2 == (h \div 65536) % 65536
    IN  IF h1 \notin DOMAIN mp THEN [o |-> 0, b |-> FALSE]
        ELSE FirstOf(SelectSeq(mp[h1], LAMBDA v : v.H1 = h1 /\ v.H2 = h2))

\* PassH3 that stops at the weak checksum and never compares the digest.
PassH3WeakOnly(mp, h, mv) ==
    LET h1 == h % 65536
        h2 == (h \div 65536) % 65536
    IN  IF h1 \notin DOMAIN mp THEN [o |-> 0, b |-> FALSE]
        ELSE FirstOf(SelectSeq(mp[h1], LAMBDA v : v.H1 = h1 /\ v.H2 = h2))

PassH3(mp, h, mv) ==
    LET h1 == h % 65536
        h2 == (h \div 65536) % 65536
    IN  IF h1 \notin DOMAIN mp THEN [o |-> 0, b |-> FALSE]
        ELSE FirstOf(SelectSeq(mp[h1], LAMBDA v : v.H1 = h1 /\ v.H2 = h2 /\ v.H3 = mv))

\* CheckPass(mp, buf, hh) of a FileHashInfo with signature hi and block size
\* bsiz: (index, ok).
CheckPass(hi, bsiz, mp, buf, hh) ==
    IF Len(buf) < bsiz THEN [idx |-> 0, ok |-> FALSE]
    ELSE LET h12 == Sum32(hh)
         IN  IF ~PassH1(mp, h12).b THEN [idx |-> 0, ok |-> FALSE]
             ELSE IF ~PassH2(mp, h12).b THEN [idx |-> 0, ok |-> FALSE]
             ELSE LET r == PassH3(mp, h12, MD5Sum(buf))
                  IN  IF ~r.b THEN [idx |-> 0, ok |-> FALSE]
                      ELSE [idx |-> hi.Blocks[r.o + 1].Idx, ok |-> TRUE]

\* ---------------------------------------------------------- FileReader
\* A reader is [Off, Buf, Hash]: Buf caches the bytes of the file from Off
\* on, Hash is the byte string written to the whole-file MD5 so far.
NewFileReader == [Off |-> 0, Buf |-> <<>>, Hash |-> <<>>]

\* Truncate dropping the cached bytes without advancing Off.
TruncateKeepOff(fr, size) ==
    IF size = 0 THEN [err |-> FALSE, fr |-> fr]
    ELSE IF fr.Buf = <<>> THEN [err |-> TRUE, fr |-> fr]
    ELSE LET num == Min(size, Len(fr.Buf))
         IN  [err |-> FALSE,
              fr |-> [fr EXCEPT !.Buf = SubSeq(fr.Buf, num + 1, Len(fr.Buf))]]

\* Truncate(size): bytes.Buffer.Read drops up to size cached bytes and
\* fails with EOF on an empty buffer.
Truncate(fr, size) ==
    IF size = 0 THEN [err |-> FALSE, fr |-> fr]
    ELSE IF fr.Buf = <<>> THEN [err |-> TRUE, fr |-> fr]
    ELSE LET num == Min(size, Len(fr.Buf))
         IN  [err |-> FALSE,
              fr |-> [fr EXCEPT !.Buf = SubSeq(fr.Buf, num + 1, Len(fr.Buf)),
                                !.Off = fr.Off + num]]

\* Read hashing every byte it serves instead of every byte it fetches.
ReaderReadHashServed(fr, dat, siz, offset) ==
    LET idx == offset - fr.Off
    IN  IF idx >= 0 /\ idx < Len(fr.Buf)
        THEN [st |-> "ok", one |-> fr.Buf[idx + 1],
              fr |-> [fr EXCEPT !.Hash = fr.Hash \o <<fr.Buf[idx + 1]>>]]
        ELSE IF siz > 0 /\ offset >= Len(dat)
        THEN [st |-> "err", one |-> 0, fr |-> fr]
        ELSE LET got == Slice(dat, offset, siz)
                 nf == [fr EXCEPT !.Buf = fr.Buf \o got]
             IN  IF Len(nf.Buf) > 0
                 THEN IF idx >= 0 /\ idx < Len(nf.Buf)
                      THEN [st |-> "ok", one |-> nf.Buf[idx + 1],
                            fr |-> [nf EXCEPT !.Hash = fr.Hash \o <<nf.Buf[idx + 1]>>]]
                      ELSE [st |-> "panic", one |-> 0, fr |-> nf]
                 ELSE [st |-> "err", one |-> 0, fr |-> nf]

\* Read(offset) on the file with contents dat and read size siz.
\* st is "ok", "err" (an error is returned) or "panic" (index out of range).
ReaderRead(fr, dat, siz, offset) ==
    LET idx == offset - fr.Off
    IN  IF idx >= 0 /\ idx < Len(fr.Buf)
        THEN [st |-> "ok", one |-> fr.Buf[idx + 1], fr |-> fr]
        ELSE IF siz > 0 /\ offset >= Len(dat)
        THEN [st |-> "err", one |-> 0, fr |-> fr]
        ELSE LET got == Slice(dat, offset, siz)
                 nf == [fr EXCEPT !.Buf = fr.Buf \o got, !.Hash = fr.Hash \o got]
             IN  IF Len(nf.Buf) > 0
                 THEN IF idx >= 0 /\ idx < Len(nf.Buf)
                      THEN [st |-> "ok", one |-> nf.Buf[idx + 1], fr |-> nf]
                      ELSE [st |-> "panic", one |-> 0, fr |-> nf]
                 ELSE [st |-> "err", one |-> 0, fr |-> nf]

\* ----------------------------------------------------------- FileMerger
\* A merger is [WFile, RFile, Size, Hash, pc]: the two handles (TRUE when
\* open), and the bytes written to the running MD5.  A disk is
\* [final, tmp]: the file at Path and the file at Path.tmp.
NewFileMerger == [WFile |-> FALSE, RFile |-> FALSE, Size |-> 0, Hash |-> <<>>, pc |-> "idle"]

\* open creating and truncating the file at Path instead of Path.tmp.
openAtPath(st, siz) ==
    [st EXCEPT !.mg.Size = siz,
               !.disk.final = FileOf(<<>>),
               !.mg.WFile = TRUE,
               !.mg.RFile = TRUE]

\* Each step maps a record [mg, disk, err] to the next one; err is "" (nil),
\* an error text or "panic".
open(st, siz) ==
    [st EXCEPT !.mg.Size = siz,
               !.disk.tmp = FileOf(<<>>),
               !.mg.WFile = TRUE,
               !.mg.RFile = st.disk.final.exists]

doOpen(st, hi) == open(st, hi.Off)

doData(st, hi) ==
    LET hashed == [st EXCEPT !.mg.Hash = st.mg.Hash \o hi.Data]
    IN  IF ~st.mg.WFile THEN [hashed EXCEPT !.err = "invalid argument"]
        ELSE [hashed EXCEPT !.disk.tmp.data = st.disk.tmp.data \o hi.Data]

\* ReadBlock seeking to the block's Idx instead of its Off.
ReadBlockAtIdx(st, b, bsiz) ==
    IF ~st.mg.RFile THEN [err |-> "not found file", data |-> <<>>]
    ELSE LET pos == b.Idx * bsiz
             got == Slice(st.disk.final.data, pos, bsiz)
         IN  IF bsiz > 0 /\ pos >= Len(st.disk.final.data)
             THEN [err |-> "EOF", data |-> <<>>]
             ELSE IF Len(got) # bsiz
             THEN [err |-> "read file data num error", data |-> <<>>]
             ELSE [err |-> "", data |-> got]

\* ReadBlock(b) with block size bsiz: (err, data).
ReadBlock(st, b, bsiz) ==
    IF ~st.mg.RFile THEN [err |-> "not found file", data |-> <<>>]
    ELSE LET pos == b.Off * bsiz
             got == Slice(st.disk.final.data, pos, bsiz)
         IN  IF bsiz > 0 /\ pos >= Len(st.disk.final.data)
             THEN [err |-> "EOF", data |-> <<>>]
             ELSE IF Len(got) # bsiz
             THEN [err |-> "read file data num error", data |-> <<>>]
             ELSE [err |-> "", data |-> got]

doIndex(st, hi, info) ==
    IF hi.Index >= Len(info.Blocks) THEN [st EXCEPT !.err = "panic"]
    ELSE LET r == ReadBlock(st, info.Blocks[hi.Index + 1], info.BlockSize)
         IN  IF r.err # "" THEN [st EXCEPT !.err = r.err]
             ELSE LET hashed == [st EXCEPT !.mg.Hash = st.mg.Hash \o r.data]
                  IN  IF ~st.mg.WFile THEN [hashed EXCEPT !.err = "invalid argument"]
                      ELSE [hashed EXCEPT !.disk.tmp.data = st.disk.tmp.data \o r.data]

\* attach up to and including os.Remove(Path); the rename is a second step
\* (mg.pc = "rename") so that the state between the two is visible.
attachRemove(st) ==
    LET closed == [st EXCEPT !.mg.RFile = FALSE, !.mg.pc = "rename"]
    IN  IF st.mg.RFile
        THEN IF ~st.disk.final.exists
             THEN [st EXCEPT !.mg.RFile = FALSE, !.err = "remove: no such file"]
             ELSE [closed EXCEPT !.disk.final = NoFile]
        ELSE closed

\* The rest of attach: close WFile, os.Rename(Path.tmp, Path).
attachRename(st) ==
    LET closed == [st EXCEPT !.mg.WFile = FALSE, !.mg.pc = "idle"]
    IN  IF ~st.disk.tmp.exists THEN [closed EXCEPT !.err = "rename: no such file"]
        ELSE [closed EXCEPT !.disk.final = st.disk.tmp, !.disk.tmp = NoFile]

\* doClose that publishes without comparing the digests.
doCloseUnverified(st, hi) == attachRemove(st)

doClose(st, hi) ==
    LET mv == MD5Sum(st.mg.Hash)
    IN  IF mv # hi.Hash THEN [st EXCEPT !.err = "hash error"]
        ELSE attachRemove(st)

\* FileMerger.Write handling the INDEX bit before the DATA bit.
MergerWriteIndexFirst(mg0, disk0, info, hi) ==
    LET s0 == [mg |-> mg0, disk |-> disk0, err |-> ""]
        s1 == IF IsOpen(hi) THEN doOpen(s0, hi) ELSE s0
        s2 == IF s1.err # "" THEN s1 ELSE IF IsIndex(hi) THEN doIndex(s1, hi, info) ELSE s1
        s3 == IF s2.err # "" THEN s2 ELSE IF IsData(hi) THEN doData(s2, hi) ELSE s2
        s4 == IF s3.err # "" THEN s3 ELSE IF IsClose(hi) THEN doClose(s3, hi) ELSE s3
    IN  s4

\* FileMerger.Write: the bits in the order OPEN, DATA, INDEX, CLOSE, stopping
\* at the first error.
MergerWrite(mg0, disk0, info, hi) ==
    LET s0 == [mg |-> mg0, disk |-> disk0, err |-> ""]
        s1 == IF IsOpen(hi) THEN doOpen(s0, hi) ELSE s0
        s2 == IF s1.err # "" THEN s1 ELSE IF IsData(hi) THEN doData(s1, hi) ELSE s1
        s3 == IF s2.err # "" THEN s2 ELSE IF IsIndex(hi) THEN doIndex(s2, hi, info) ELSE s2
        s4 == IF s3.err # "" THEN s3 ELSE IF IsClose(hi) THEN doClose(s3, hi) ELSE s3
    IN  s4

\* ------------------------------------------------------------------ state
VARIABLES
    T0,        \* the target file as it was before the run (never changes)
    S,         \* contents of the source file
    B,         \* block size passed to GetFileHashInfo
    disk,      \* [final, tmp]: the files at Path and Path.tmp
    Info,      \* the signature (HashInfo) of the target
    sf,        \* the FileHashInfo of the source: [File, FileSize, BlockSize]
    pc,        \* position of the driver / of Analyse
    an,        \* locals of Analyse: [foff, rbuf, wbuf, adler, file, err]
    wire,      \* the AnalyseInfo handed to the sink
    ret,       \* what the sink returned: "none" (not called yet), "" or an error
    out,       \* the instructions the sink has received, in order
    mg,        \* the FileMerger
    tampered,  \* an instruction was changed between Analyse and the merger
    calls      \* number of FileMerger.Write calls so far

vars == <<T0, S, B, disk, Info, sf, pc, an, wire, ret, out, mg, tampered, calls>>

NewAnalyse == [foff |-> 0, rbuf |-> <<>>, wbuf |-> <<>>, adler |-> AdlerNew,
               file |-> NewFileReader, err |-> ""]

CallPcs == {"cbOpen", "cbEmpty", "cbAgain", "cbIndex", "cbData", "cbClose"}

IsEmpty(hi) == Len(hi.Blocks) = 0

\* The target is absent or any byte string up to MaxT, the source any byte
\* string up to MaxS; nothing has run yet.
InitWith(maxT, maxS, sizes) ==
    /\ T0 \in {NoFile} \cup {FileOf(d) : d \in SeqsUpTo(maxT)}
    /\ S \in SeqsUpTo(maxS)
    /\ B \in sizes
    /\ disk = [final |-> T0, tmp |-> NoFile]
    /\ Info = [Blocks |-> <<>>, MD5 |-> NilMD5, BlockSize |-> 0]
    /\ sf = [File |-> FALSE, FileSize |-> 0, BlockSize |-> 0]
    /\ pc = "sign"
    /\ an = NewAnalyse
    /\ wire = NewInfo
    /\ ret = "none"
    /\ out = <<>>
    /\ mg = NewFileMerger
    /\ tampered = FALSE
    /\ calls = 0

Init == InitWith(MaxT, MaxS, 1..MaxB)

\* ---------------------------------------------------------------- actions
\* hi := GetFileHashInfo(dst, cb, B); mp := NewFileMerger(dst, hi)
Sign ==
    /\ pc = "sign"
    /\ LET r == GetFileHashInfo(disk.final, B)
       IN  /\ Info' = r.hi
           /\ pc' = IF r.err THEN "abort" ELSE "open"
           /\ an' = IF r.err THEN [an EXCEPT !.err = "block size error"] ELSE an
    /\ mg' = NewFileMerger
    /\ UNCHANGED <<T0, S, B, disk, sf, wire, ret, out, tampered, calls>>

\* sf := NewFileHashInfo(src, hi); sf.Open()
OpenSource ==
    /\ pc = "open"
    /\ LET o == Open(FileOf(S), Info.BlockSize)
       IN  /\ sf' = [File |-> o.File, FileSize |-> o.FileSize, BlockSize |-> Info.BlockSize]
           /\ pc' = IF o.err THEN "abort" ELSE "begin"
           /\ an' = IF o.err THEN [an EXCEPT !.err = "block size error"] ELSE an
    /\ UNCHANGED <<T0, S, B, disk, Info, wire, ret, out, mg, tampered, calls>>

\* Analyse from its entry to the call of fn for OPEN.
AnalyseBegin ==
    /\ pc = "begin"
    /\ IF ~sf.File
       THEN /\ pc' = "done"
            /\ an' = [NewAnalyse EXCEPT !.err = "file not open"]
            /\ UNCHANGED <<wire, ret>>
       ELSE /\ pc' = "cbOpen"
            /\ an' = NewAnalyse
            /\ wire' = [NewInfo EXCEPT !.Type = AnalyseTypeOpen, !.Off = sf.FileSize]
            /\ ret' = "none"
    /\ UNCHANGED <<T0, S, B, disk, Info, sf, out, mg, tampered, calls>>

\* The end of an iteration that forgets to rewind foff to the window start.
FallThroughNoRewind(a) ==
    LET a1 == IF Len(a.rbuf) >= sf.BlockSize
              THEN [a EXCEPT !.adler = AdlerNew,
                             !.wbuf = a.wbuf \o <<a.rbuf[1]>>,
                             !.rbuf = <<>>]
              ELSE a
    IN  IF Len(a1.wbuf) >= sf.BlockSize
        THEN /\ an' = a1
             /\ wire' = [NewInfo EXCEPT !.Type = AnalyseTypeData,
                                        !.Data = a1.wbuf,
                                        !.Off = a1.foff - (Len(a1.wbuf) - 1)]
             /\ ret' = "none"
             /\ pc' = "cbData"
        ELSE /\ an' = [a1 EXCEPT !.foff = a1.foff + 1]
             /\ pc' = "loop"
             /\ UNCHANGED <<wire, ret>>

\* The end of an iteration that leaves the weak checksum as it is when the
\* window is given up.
FallThroughKeepAdler(a) ==
    LET a1 == IF Len(a.rbuf) >= sf.BlockSize
              THEN [a EXCEPT !.foff = a.foff - (Len(a.rbuf) - 1),
                             !.wbuf = a.wbuf \o <<a.rbuf[1]>>,
                             !.rbuf = <<>>]
              ELSE a
    IN  IF Len(a1.wbuf) >= sf.BlockSize
        THEN /\ an' = a1
             /\ wire' = [NewInfo EXCEPT !.Type = AnalyseTypeData,
                                        !.Data = a1.wbuf,
                                        !.Off = a1.foff - (Len(a1.wbuf) - 1)]
             /\ ret' = "none"
             /\ pc' = "cbData"
        ELSE /\ an' = [a1 EXCEPT !.foff = a1.foff + 1]
             /\ pc' = "loop"
             /\ UNCHANGED <<wire, ret>>

\* The end of a loop iteration after the window did not match (lines
\* 613-637): a full window gives its first byte to wbuf and rewinds foff; a
\* full wbuf is handed to the sink.  a is the Analyse state at line 613.
FallThrough(a) ==
    LET a1 == IF Len(a.rbuf) >= sf.BlockSize
              THEN [a EXCEPT !.adler = AdlerNew,
                             !.foff = a.foff - (Len(a.rbuf) - 1),
                             !.wbuf = a.wbuf \o <<a.rbuf[1]>>,
                             !.rbuf = <<>>]
              ELSE a
    IN  IF Len(a1.wbuf) >= sf.BlockSize
        THEN /\ an' = a1
             /\ wire' = [NewInfo EXCEPT !.Type = AnalyseTypeData,
                                        !.Data = a1.wbuf,
                                        !.Off = a1.foff - (Len(a1.wbuf) - 1)]
             /\ ret' = "none"
             /\ pc' = "cbData"
        ELSE /\ an' = [a1 EXCEPT !.foff = a1.foff + 1]
             /\ pc' = "loop"
             /\ UNCHANGED <<wire, ret>>

\* Lines 587-592 on the locals a: file.Read(foff), rbuf.Write(one),
\* adler.Write(one).  a is the state in which CheckPass is called.
Fed(a) ==
    LET r == ReaderRead(a.file, S, sf.BlockSize, a.foff)
    IN  [st |-> r.st, fr |-> r.fr,
         a |-> [a EXCEPT !.file = r.fr,
                         !.rbuf = a.rbuf \o <<r.one>>,
                         !.adler = AdlerWrite1(a.adler, r.one)]]

\* An iteration of the loop of Analyse on the matching path (lines 587-637):
\* one byte enters the window, a window that passes is emitted as INDEX.
MatchIter ==
    LET r == Fed(an)
        a1 == r.a
        cp == CheckPass(Info, sf.BlockSize, GetMap(Info), a1.rbuf, a1.adler)
    IN  IF r.st = "panic"
        THEN /\ pc' = "panic"
             /\ an' = [an EXCEPT !.file = r.fr]
             /\ UNCHANGED <<wire, ret>>
        ELSE IF r.st = "err"
        THEN /\ pc' = "done"
             /\ an' = [an EXCEPT !.file = r.fr, !.err = "EOF"]
             /\ UNCHANGED <<wire, ret>>
        ELSE IF cp.ok
        THEN /\ an' = [a1 EXCEPT !.adler = AdlerNew]
             /\ wire' = [NewInfo EXCEPT
                            !.Type = IF Len(a1.wbuf) > 0
                                     THEN AnalyseTypeIndex + AnalyseTypeData
                                     ELSE AnalyseTypeIndex,
                            !.Index = cp.idx,
                            !.Data = a1.wbuf,
                            !.Off = a1.foff - (Len(a1.wbuf) + Len(a1.rbuf) - 1)]
             /\ ret' = "none"
             /\ pc' = "cbIndex"
        ELSE FallThrough(a1)

\* One iteration of the loop of Analyse, up to its call of fn (if any).
AnalyseIter ==
    /\ pc = "loop"
    /\ an.foff < sf.FileSize
    /\ IF IsEmpty(Info)
       THEN LET buf == Slice(S, an.foff, sf.BlockSize)
            IN  /\ an' = [an EXCEPT !.file.Hash = an.file.Hash \o buf,
                                    !.foff = an.foff + (Len(buf) - 1)]
                /\ wire' = [NewInfo EXCEPT !.Type = AnalyseTypeData, !.Data = buf]
                /\ ret' = "none"
                /\ pc' = "cbEmpty"
       ELSE MatchIter
    /\ UNCHANGED <<T0, S, B, disk, Info, sf, out, mg, tampered, calls>>

\* The tail flush computing Off from the window alone, without the literal.
AnalyseTailOffWindow ==
    /\ pc = "loop"
    /\ an.foff >= sf.FileSize
    /\ LET w == an.wbuf \o an.rbuf
           close == [NewInfo EXCEPT !.Type = AnalyseTypeClose,
                                    !.Hash = MD5Sum(an.file.Hash)]
       IN  /\ an' = [an EXCEPT !.wbuf = w]
           /\ wire' = IF Len(w) > 0
                      THEN [close EXCEPT !.Type = AnalyseTypeClose + AnalyseTypeData,
                                         !.Data = w,
                                         !.Off = sf.FileSize - Len(an.rbuf)]
                      ELSE close
    /\ ret' = "none"
    /\ pc' = "cbClose"
    /\ UNCHANGED <<T0, S, B, disk, Info, sf, out, mg, tampered, calls>>

\* After the loop: the window joins the literal and CLOSE is handed to fn.
AnalyseTail ==
    /\ pc = "loop"
    /\ an.foff >= sf.FileSize
    /\ LET w == an.wbuf \o an.rbuf
           close == [NewInfo EXCEPT !.Type = AnalyseTypeClose,
                                    !.Hash = MD5Sum(an.file.Hash)]
       IN  /\ an' = [an EXCEPT !.wbuf = w]
           /\ wire' = IF Len(w) > 0
                      THEN [close EXCEPT !.Type = AnalyseTypeClose + AnalyseTypeData,
                                         !.Data = w,
                                         !.Off = sf.FileSize - Len(w)]
                      ELSE close
    /\ ret' = "none"
    /\ pc' = "cbClose"
    /\ UNCHANGED <<T0, S, B, disk, Info, sf, out, mg, tampered, calls>>

\* The sink of the test driver: fn(info) is mp.Write(info).  A CLOSE that
\* verifies leaves the merger between os.Remove and os.Rename.
Sink ==
    /\ pc \in CallPcs
    /\ ret = "none"
    /\ mg.pc = "idle"
    /\ LET r == MergerWrite(mg, disk, Info, wire)
       IN  /\ mg' = r.mg
           /\ disk' = r.disk
           /\ IF r.err = "panic"
              THEN pc' = "panic" /\ ret' = ret
              ELSE /\ pc' = pc
                   /\ ret' = IF r.mg.pc = "rename" THEN "none" ELSE r.err
    /\ out' = Append(out, wire)
    /\ calls' = calls + 1
    /\ UNCHANGED <<T0, S, B, Info, sf, an, wire, tampered>>

\* The second half of attach: os.Rename(Path.tmp, Path); Write returns.
AttachRename ==
    /\ mg.pc = "rename"
    /\ LET r == attachRename([mg |-> mg, disk |-> disk, err |-> ""])
       IN  /\ mg' = r.mg
           /\ disk' = r.disk
           /\ ret' = r.err
    /\ UNCHANGED <<T0, S, B, Info, sf, pc, an, wire, out, tampered, calls>>

\* Analyse continues after fn returned.
AnalyseResume ==
    /\ pc \in CallPcs
    /\ ret # "none"
    /\ CASE pc = "cbOpen" ->
              /\ pc' = IF ret # "" THEN "done" ELSE "loop"
              /\ an' = [an EXCEPT !.err = ret]
              /\ UNCHANGED <<wire, ret>>
         [] pc = "cbEmpty" ->
              IF ret # ""
              THEN /\ pc' = "cbAgain"
                   /\ ret' = "none"
                   /\ UNCHANGED <<an, wire>>
              ELSE FallThrough(an)
         [] pc = "cbAgain" ->
              /\ pc' = "done"
              /\ an' = [an EXCEPT !.err = ret]
              /\ UNCHANGED <<wire, ret>>
         [] pc = "cbIndex" ->
              LET t == Truncate(an.file, Len(an.wbuf) + Len(an.rbuf))
              IN  IF ret # ""
                  THEN /\ pc' = "done"
                       /\ an' = [an EXCEPT !.err = ret]
                       /\ UNCHANGED <<wire, ret>>
                  ELSE IF t.err
                  THEN /\ pc' = "done"
                       /\ an' = [an EXCEPT !.err = "EOF"]
                       /\ UNCHANGED <<wire, ret>>
                  ELSE /\ pc' = "loop"
                       /\ an' = [an EXCEPT !.file = t.fr, !.wbuf = <<>>, !.rbuf = <<>>,
                                           !.foff = an.foff + 1]
                       /\ UNCHANGED <<wire, ret>>
         [] pc = "cbData" ->
              LET t == Truncate(an.file, Len(an.wbuf))
              IN  IF ret # ""
                  THEN /\ pc' = "done"
                       /\ an' = [an EXCEPT !.err = ret]
                       /\ UNCHANGED <<wire, ret>>
                  ELSE IF t.err
                  THEN /\ pc' = "done"
                       /\ an' = [an EXCEPT !.err = "EOF"]
                       /\ UNCHANGED <<wire, ret>>
                  ELSE /\ pc' = "loop"
                       /\ an' = [an EXCEPT !.file = t.fr, !.wbuf = <<>>,
                                           !.foff = an.foff + 1]
                       /\ UNCHANGED <<wire, ret>>
         [] pc = "cbClose" ->
              /\ pc' = "done"
              /\ an' = [an EXCEPT !.err = ret]
              /\ UNCHANGED <<wire, ret>>
    /\ UNCHANGED <<T0, S, B, disk, Info, sf, out, mg, tampered, calls>>

Next ==
    \/ Sign
    \/ OpenSource
    \/ AnalyseBegin
    \/ AnalyseIter
    \/ AnalyseTail
    \/ Sink
    \/ AttachRename
    \/ AnalyseResume

Spec == Init /\ [][Next]_vars

\* ------------------------------------------- a stream changed on its way
\* One byte of the Data of the instruction about to be delivered is changed
\* (once per run).
Tamper ==
    /\ pc \in CallPcs
    /\ ret = "none"
    /\ mg.pc = "idle"
    /\ ~tampered
    /\ Len(out) = calls
    /\ IsData(wire)
    /\ \E i \in DOMAIN wire.Data : \E v \in Byte \ {wire.Data[i]} :
          wire' = [wire EXCEPT !.Data[i] = v]
    /\ tampered' = TRUE
    /\ UNCHANGED <<T0, S, B, disk, Info, sf, pc, an, ret, out, mg, calls>>

InitTamper == InitWith(TamperMaxT, TamperMaxS, SmallB)

NextTamper == Next \/ Tamper

SpecTamper == InitTamper /\ [][NextTamper]_vars

\* ------------------------------------------------- a sink that may refuse
\* fn(info) returns an error without handing the instruction to the merger:
\* the call is recorded in out, calls (the Write calls) stays as it is, so
\* Len(out) > calls from the first refusal on.
SinkFail ==
    /\ pc \in CallPcs
    /\ ret = "none"
    /\ mg.pc = "idle"
    /\ ret' = "sink error"
    /\ out' = Append(out, wire)
    /\ UNCHANGED <<T0, S, B, disk, Info, sf, pc, an, wire, mg, tampered, calls>>

InitFail == InitWith(TamperMaxT, TamperMaxS, SmallB)

NextFail == Next \/ SinkFail

SpecFail == InitFail /\ [][NextFail]_vars

\* ------------------------------- the version of src/unnamed/part_000
\* FillHashInfo of part_000 from chunk i on: every chunk is recorded, a short
\* final one included, with its length and byte offset; nothing is skipped.
RECURSIVE FillLoopPart0(_, _, _, _, _, _)
FillLoopPart0(dat, bsiz, count, i, pos, acc) ==
    IF i >= count THEN acc
    ELSE LET blk == Slice(dat, pos, bsiz)
             acs == Checksum(blk)
             hb == [Idx |-> i, Len |-> Len(blk), Off |-> pos,
                    H1 |-> acs % 65536,
                    H2 |-> (acs \div 65536) % 65536,
                    H3 |-> MD5Sum(blk)]
         IN  FillLoopPart0(dat, bsiz, count, i + 1, pos + Len(blk),
                           [blocks |-> Append(acc.blocks, hb), fmd5 |-> acc.fmd5 \o blk])

\* df.Open(); df.FillHashInfo(); df.GetHashInfo() of part_000.
GetHashInfoPart0(f, bsiz) ==
    LET o == Open(f, bsiz)
        acc == FillLoopPart0(f.data, bsiz, o.Count, 0, 0, [blocks |-> <<>>, fmd5 |-> <<>>])
    IN  IF o.FileSize = 0
        THEN [Blocks |-> <<>>, MD5 |-> NilMD5, BlockSize |-> bsiz]
        ELSE [Blocks |-> acc.blocks, MD5 |-> MD5Sum(acc.fmd5), BlockSize |-> bsiz]

\* HashInfo.IsEmpty of part_000: no block, or a single short block.
IsEmptyPart0(hi) ==
    \/ Len(hi.Blocks) = 0
    \/ Len(hi.Blocks) = 1 /\ hi.Blocks[1].Len < hi.BlockSize

\* df := NewFileHashInfo(dst, B); df.Open(); df.FillHashInfo(); GetHashInfo()
SignPart0 ==
    /\ pc = "sign"
    /\ Info' = GetHashInfoPart0(disk.final, B)
    /\ pc' = "open"
    /\ UNCHANGED <<T0, S, B, disk, sf, an, wire, ret, out, mg, tampered, calls>>

\* One iteration of the loop of the Analyse of part_000.  On the degenerate
\* path the file is read from its current position (all bytes read so far
\* went to file.Hash), foff advances by the bytes read.
AnalyseIterPart0 ==
    /\ pc = "loop"
    /\ an.foff < sf.FileSize
    /\ IF IsEmptyPart0(Info)
       THEN LET pos == Len(an.file.Hash)
                buf == Slice(S, pos, sf.BlockSize)
            IN  IF pos >= Len(S)
                THEN /\ pc' = "done"
                     /\ an' = [an EXCEPT !.err = "EOF"]
                     /\ UNCHANGED <<wire, ret>>
                ELSE /\ an' = [an EXCEPT !.file.Hash = an.file.Hash \o buf,
                                         !.foff = an.foff + Len(buf)]
                     /\ wire' = [NewInfo EXCEPT !.Type = AnalyseTypeData, !.Data = buf]
                     /\ ret' = "none"
                     /\ pc' = "cbStream"
       ELSE MatchIter
    /\ UNCHANGED <<T0, S, B, disk, Info, sf, out, mg, tampered, calls>>

\* After the loop of part_000: as in AnalyseTail, then file.Truncate of the
\* literal before CLOSE is handed to fn.
AnalyseTailPart0 ==
    /\ pc = "loop"
    /\ an.foff >= sf.FileSize
    /\ LET w == an.wbuf \o an.rbuf
           close == [NewInfo EXCEPT !.Type = AnalyseTypeClose,
                                    !.Hash = MD5Sum(an.file.Hash)]
           t == Truncate(an.file, Len(w))
       IN  IF t.err
           THEN /\ pc' = "done"
                /\ an' = [an EXCEPT !.wbuf = w, !.err = "EOF"]
                /\ UNCHANGED <<wire, ret>>
           ELSE /\ an' = [an EXCEPT !.wbuf = w, !.file = t.fr]
                /\ wire' = IF Len(w) > 0
                           THEN [close EXCEPT !.Type = AnalyseTypeClose + AnalyseTypeData,
                                              !.Data = w,
                                              !.Off = sf.FileSize - Len(w)]
                           ELSE close
                /\ ret' = "none"
                /\ pc' = "cbClose"
    /\ UNCHANGED <<T0, S, B, disk, Info, sf, out, mg, tampered, calls>>

\* A sink that takes every instruction and returns nil.
SinkAccept ==
    /\ pc \in CallPcs \cup {"cbStream"}
    /\ ret = "none"
    /\ ret' = ""
    /\ out' = Append(out, wire)
    /\ UNCHANGED <<T0, S, B, disk, Info, sf, pc, an, wire, mg, tampered, calls>>

\* The Analyse of part_000 continues after fn returned: on the degenerate
\* path an error is returned as it is, otherwise the loop continues behind
\* the bytes read; the other calls continue as in AnalyseResume.
AnalyseResumePart0 ==
    \/ /\ pc = "cbStream"
       /\ ret # "none"
       /\ pc' = IF ret # "" THEN "done" ELSE "loop"
       /\ an' = IF ret # "" THEN [an EXCEPT !.err = ret]
                ELSE [an EXCEPT !.foff = an.foff + 1]
       /\ UNCHANGED <<T0, S, B, disk, Info, sf, wire, ret, out, mg, tampered, calls>>
    \/ /\ pc \in {"cbOpen", "cbIndex", "cbData", "cbClose"}
       /\ AnalyseResume

InitPart0 == InitWith(TamperMaxT, TamperMaxS, SmallB)

NextPart0 ==
    \/ SignPart0
    \/ OpenSource
    \/ AnalyseBegin
    \/ AnalyseIterPart0
    \/ AnalyseTailPart0
    \/ SinkAccept
    \/ AnalyseResumePart0

SpecPart0 == InitPart0 /\ [][NextPart0]_vars

\* ------------------------------------------- the merger driven directly
\* The instructions a caller may pass to Write: any combination of the four
\* bits, Data of one byte, an Index that is valid or one past the last block.
HasBit(t, bit) == (t \div bit) % 2 = 1

Instructions ==
    UNION {{[Type |-> t, Off |-> 0, Index |-> i, Data |-> d, Hash |-> NilMD5] :
               i \in IF HasBit(t, AnalyseTypeIndex) THEN 0..Len(Info.Blocks) ELSE {0},
               d \in IF HasBit(t, AnalyseTypeData) THEN {<<v>> : v \in Byte} ELSE {<<>>}} :
           t \in 1..15}

\* The bytes the merger will have hashed when it reaches the CLOSE bit of hi.
HashedAfter(hi) ==
    MergerWrite(mg, disk, Info, [hi EXCEPT !.Type = hi.Type % AnalyseTypeClose]).mg.Hash

\* hi with a Hash that verifies (good) or one that does not.
WithHash(hi, good) ==
    IF ~IsClose(hi) THEN hi
    ELSE [hi EXCEPT !.Hash = IF good THEN MD5Sum(HashedAfter(hi))
                              ELSE MD5Sum(HashedAfter(hi) \o <<0>>)]

\* The contents of the temp file when the merger reaches the CLOSE bit of hi:
\* the bytes appended since the last OPEN.
TmpAfter(hi) ==
    MergerWrite(mg, disk, Info, [hi EXCEPT !.Type = hi.Type % AnalyseTypeClose]).disk.tmp.data

\* hi with the Hash a sender computes over the file of the present stream.
WithFreshHash(hi) ==
    IF ~IsClose(hi) THEN hi ELSE [hi EXCEPT !.Hash = MD5Sum(TmpAfter(hi))]

\* mp := NewFileMerger(dst, GetFileHashInfo(dst, cb, B)) has run.
InitMerger ==
    /\ T0 \in {NoFile} \cup {FileOf(d) : d \in SeqsUpTo(MergerMaxT)}
    /\ S = <<>>
    /\ B \in SmallB
    /\ disk = [final |-> T0, tmp |-> NoFile]
    /\ Info = GetFileHashInfo(T0, B).hi
    /\ sf = [File |-> FALSE, FileSize |-> 0, BlockSize |-> 0]
    /\ pc = "merger"
    /\ an = NewAnalyse
    /\ wire = NewInfo
    /\ ret = "none"
    /\ out = <<>>
    /\ mg = NewFileMerger
    /\ tampered = FALSE
    /\ calls = 0

\* mp.Write(hi) for an instruction of the caller's choice.
WriteAny ==
    /\ pc = "merger"
    /\ mg.pc = "idle"
    /\ calls < MaxWrites
    /\ \E h \in Instructions : \E hi \in {WithHash(h, TRUE), WithHash(h, FALSE), WithFreshHash(h)} :
          LET r == MergerWrite(mg, disk, Info, hi)
          IN  /\ wire' = hi
              /\ mg' = r.mg
              /\ disk' = r.disk
              /\ IF r.err = "panic"
                 THEN pc' = "panic" /\ ret' = "none"
                 ELSE /\ pc' = pc
                      /\ ret' = IF r.mg.pc = "rename" THEN "none" ELSE r.err
    /\ calls' = calls + 1
    /\ UNCHANGED <<T0, S, B, Info, sf, an, out, tampered>>

NextMerger == WriteAny \/ AttachRename

SpecMerger == InitMerger /\ [][NextMerger]_vars

\* ------------------------------------------------- vocabulary of the claims
RECURSIVE DataLen(_)
DataLen(os) == IF os = <<>> THEN 0 ELSE Len(Head(os).Data) + DataLen(Tail(os))

RECURSIVE DataCat(_)
DataCat(os) == IF os = <<>> THEN <<>> ELSE Head(os).Data \o DataCat(Tail(os))

IndexCount(os) == Len(SelectSeq(os, IsIndex))

\* Analyse has returned and no call of the sink returned an error.
SinkNeverFailed == ret \in {"none", ""}
AnalyseReturned == pc = "done"

\* The bytes of block k (0-based position in the signature) in the target.
BlockBytes(k) == Slice(T0.data, Info.Blocks[k + 1].Off * Info.BlockSize, Info.BlockSize)

HasIndex == \E k \in DOMAIN out : IsIndex(out[k])
HasLiteralData == \E k \in DOMAIN out : IsData(out[k]) /\ ~IsClose(out[k])

\* ------------------------------------------------------------------ claims
\* C1 (reconstruction law): for every target T, every non-empty source S and
\* every block size B, feeding the instructions of Analyse in order to
\* FileMerger.Write never fails or panics, and when Analyse has returned the
\* file at the final path equals S.
C1_ReconstructionLaw ==
    S # <<>> =>
        /\ pc \notin {"panic", "abort"}
        /\ SinkNeverFailed
        /\ AnalyseReturned => (an.err = "" /\ disk.final = FileOf(S) /\ ~disk.tmp.exists)

\* Witness of C1: a finished run that rebuilt S from a literal and from a
\* block of a target that differs from S.
C1_Witness ==
    /\ AnalyseReturned /\ S # <<>> /\ T0.exists /\ T0.data # S
    /\ HasIndex /\ HasLiteralData
    /\ disk.final = FileOf(S)

\* C2 (digest soundness): every CLOSE the sink receives carries the MD5 of
\* all of S.
C2_DigestSoundness ==
    \A k \in DOMAIN out : IsClose(out[k]) => out[k].Hash = MD5Sum(S)

\* Witness of C2: a CLOSE on the matching path after the window was moved
\* back over bytes it had already read.
C2_Witness ==
    /\ AnalyseReturned /\ ~IsEmpty(Info) /\ HasLiteralData /\ HasIndex
    /\ IsClose(out[Len(out)]) /\ Len(S) > sf.BlockSize

\* C3 (stream shape): when Analyse has returned and the sink never failed,
\* the sink has received one OPEN, first, with Off = |S|, one CLOSE, last,
\* and between them only instructions with DATA and/or INDEX.
C3_StreamShape ==
    (AnalyseReturned /\ SinkNeverFailed) =>
        /\ Len(out) >= 2
        /\ IsOpen(out[1]) /\ out[1].Off = Len(S)
        /\ IsClose(out[Len(out)])
        /\ \A k \in 2..Len(out) : ~IsOpen(out[k])
        /\ \A k \in 1..(Len(out) - 1) : ~IsClose(out[k])
        /\ \A k \in 2..(Len(out) - 1) : IsData(out[k]) \/ IsIndex(out[k])

\* The instructions Analyse has emitted: those delivered, and the CLOSE that
\* is about to be handed to the sink.
Emitted ==
    IF pc = "cbClose" /\ (out = <<>> \/ ~IsClose(out[Len(out)]))
    THEN Append(out, wire)
    ELSE out

\* C4 (coverage): when Analyse has emitted CLOSE, and when it has returned,
\* without a sink failure, the lengths of all Data plus BlockSize per INDEX
\* add up to |S|.
C4_Coverage ==
    ((AnalyseReturned \/ pc = "cbClose") /\ SinkNeverFailed) =>
        DataLen(Emitted) + IndexCount(Emitted) * sf.BlockSize = Len(S)

\* Witness of C4: a finished run with literal bytes and matched blocks.
C4_Witness ==
    /\ AnalyseReturned /\ SinkNeverFailed /\ an.err = ""
    /\ HasIndex /\ HasLiteralData /\ IndexCount(out) >= 2

\* A BlockSize-long window of S equals a block of the signature.
SomeWindowMatches ==
    \E p \in 0..(Len(S) - sf.BlockSize) : \E k \in DOMAIN Info.Blocks :
        MD5Sum(Slice(S, p, sf.BlockSize)) = Info.Blocks[k].H3

\* C5 (match soundness): an INDEX k is emitted only for a window of S, at
\* Off + len(Data), that equals block k of T; if no window of S equals a
\* block of the signature there is no INDEX and all of S is sent as Data.
C5_MatchSoundness ==
    /\ \A k \in DOMAIN out : IsIndex(out[k]) =>
          /\ out[k].Index < Len(Info.Blocks)
          /\ Len(BlockBytes(out[k].Index)) = sf.BlockSize
          /\ Slice(S, out[k].Off + Len(out[k].Data), sf.BlockSize) = BlockBytes(out[k].Index)
    /\ (AnalyseReturned /\ an.err = "" /\ ~SomeWindowMatches) =>
          (~HasIndex /\ DataCat(out) = S)

\* Witness of C5: an INDEX after a literal, for a block that is not at the
\* same position in T as the window is in S.
C5_Witness ==
    \E k \in DOMAIN out :
        /\ IsIndex(out[k]) /\ IsData(out[k])
        /\ Info.Blocks[out[k].Index + 1].Off * sf.BlockSize # out[k].Off + Len(out[k].Data)

\* C6 (identity): if S equals T and |T| >= BlockSize, the stream is OPEN, one
\* INDEX without Data per full block of S in order, and CLOSE, which carries
\* the trailing |S| mod BlockSize bytes as the only Data.
C6_Identity ==
    (AnalyseReturned /\ T0.exists /\ S = T0.data /\ Len(S) >= sf.BlockSize) =>
        LET n == Len(S) \div sf.BlockSize
        IN  /\ Len(out) = n + 2
            /\ out[1].Type = AnalyseTypeOpen
            /\ \A k \in 1..n :
                  /\ out[k + 1].Type = AnalyseTypeIndex
                  /\ out[k + 1].Data = <<>>
                  /\ BlockBytes(out[k + 1].Index) = Slice(S, (k - 1) * sf.BlockSize, sf.BlockSize)
            /\ IsClose(out[n + 2])
            /\ out[n + 2].Data = Slice(S, n * sf.BlockSize, sf.BlockSize)
            /\ IsData(out[n + 2]) <=> (Len(S) % sf.BlockSize # 0)

\* Witness of C6: identical files with a full block and a short tail.
C6_Witness ==
    /\ AnalyseReturned /\ T0.exists /\ S = T0.data
    /\ Len(S) \div sf.BlockSize >= 1 /\ sf.BlockSize >= 2 /\ Len(S) % sf.BlockSize # 0
    /\ IndexCount(out) = Len(S) \div sf.BlockSize

\* C7 (T unmodified before CLOSE): a step changes the file at the final
\* path only if it is a Write of an instruction with the CLOSE bit whose Hash
\* equals the digest of the bytes hashed, or the rename that completes such a
\* Write; every other Write, failing or not, leaves the final path alone.
C7_TargetUntouchedBeforeClose ==
    [][disk'.final # disk.final =>
          \/ mg.pc = "rename"
          \/ IsClose(wire') /\ wire'.Hash = MD5Sum(mg'.Hash)]_vars

\* Witness of C7: the second of two Write calls, an INDEX, returned an error
\* and the existing target is as it was.
C7_Witness ==
    /\ pc = "merger" /\ calls = 2
    /\ IsIndex(wire) /\ ~IsClose(wire) /\ ret = "not found file"
    /\ T0.exists /\ disk.final = T0

\* C8 (atomicity on integrity error): after Write returned the hash error for
\* a CLOSE, the final path holds T as before and Path.tmp does not exist.
C8_AtomicityOnIntegrityError ==
    (IsClose(wire) /\ ret = "hash error") =>
        (disk.final = T0 /\ ~disk.tmp.exists)

\* C9 (atomic publish): between the steps of attach the final path holds
\* either the complete original T or the complete new content.
C9_AtomicPublish ==
    mg.pc = "rename" =>
        (disk.final = T0 \/ disk.final = FileOf(disk.tmp.data))

\* C10 (verification gate): in one OPEN..CLOSE stream the temp file reaches
\* the final path only if the digest of the bytes appended equals the Hash of
\* the CLOSE; when a Data byte was changed on the way, the target stays as it
\* was and Analyse returns the hash error of the CLOSE.
C10_VerificationGate ==
    /\ mg.pc = "rename" =>
          (IsClose(wire) /\ wire.Hash = MD5Sum(disk.tmp.data))
    /\ (mg.pc = "idle" /\ disk.final # T0) =>
          (IsClose(wire) /\ ret = "" /\ wire.Hash = MD5Sum(disk.final.data))
    /\ tampered =>
          /\ mg.pc = "idle" /\ disk.final = T0
          /\ AnalyseReturned => an.err = "hash error"

\* Witness of C10: a stream with a literal and a matched block was tampered
\* with and refused at CLOSE, the existing target untouched.
C10_Witness ==
    /\ tampered /\ AnalyseReturned /\ an.err = "hash error"
    /\ T0.exists /\ disk.final = T0 /\ HasIndex /\ disk.tmp.exists

\* A call of the sink has returned an error of the sink's own.
SinkRefused == Len(out) > calls

\* C11 (sink failure propagation): once the sink has returned an error for an
\* instruction, on the empty-signature path or on the matching path, the sink
\* is not invoked again (so no CLOSE follows), and Analyse returns that error.
C11_SinkFailurePropagation ==
    /\ [](SinkRefused /\ AnalyseReturned => an.err = "sink error")
    /\ [][SinkRefused => out' = out]_vars

\* GetFileHashInfo(T, B) has returned a signature of a non-empty target.
Signed == pc # "sign" /\ T0.exists /\ T0.data # <<>>

\* ceil(|T| / B)
ChunkCount ==
    IF Len(T0.data) % B = 0 THEN Len(T0.data) \div B ELSE (Len(T0.data) \div B) + 1

\* C12 (signature whole digest): for every non-empty T and every B, the MD5
\* of the signature of T is the MD5 of all bytes of T, also when |T| is not a
\* multiple of B and when T has repeated blocks.
C12_SignatureWholeDigest ==
    Signed => Info.MD5 = MD5Sum(T0.data)

\* C13 (signer block count): the signature of a non-empty T has one block
\* for every B-sized chunk of T, a shorter final chunk included: exactly
\* ceil(|T| / B) blocks.
C13_SignerBlockCount ==
    Signed => Len(Info.Blocks) = ChunkCount

\* C14 (signature index/offset): block i of every signature has Idx = i and
\* Off = i, also when T has several blocks with the same contents.
C14_SignatureIndexOffset ==
    pc # "sign" =>
        \A i \in DOMAIN Info.Blocks :
            Info.Blocks[i].Idx = i - 1 /\ Info.Blocks[i].Off = i - 1

\* hh := NewHashInfo(); hi.Write(buf); hh.Read(buf) on the signature Info.
Decoded == HashInfoRead(NewHashInfo, HashInfoWrite(Info))

\* C15 (signature round-trip): for the signature of a non-empty T, Read on a
\* fresh HashInfo of the bytes of Write succeeds and gives the same MD5, the
\* same BlockSize, as many blocks and in each block the same Idx, Off, H1, H2
\* and H3.
C15_SignatureRoundTrip ==
    (pc = "open" /\ Signed) =>
        /\ ~Decoded.err
        /\ Decoded.hi.MD5 = Info.MD5
        /\ Decoded.hi.BlockSize = Info.BlockSize
        /\ Len(Decoded.hi.Blocks) = Len(Info.Blocks)
        /\ \A i \in DOMAIN Info.Blocks :
              LET d == Decoded.hi.Blocks[i]
                  b == Info.Blocks[i]
              IN  /\ d.Idx = b.Idx /\ d.Off = b.Off
                  /\ d.H1 = b.H1 /\ d.H2 = b.H2 /\ d.H3 = b.H3

\* Witness of C15: a signature of two blocks whose weak checksums have
\* different halves was written and read back.
C15_Witness ==
    /\ pc = "open" /\ Signed
    /\ Len(Info.Blocks) >= 2
    /\ \A i \in DOMAIN Info.Blocks : Info.Blocks[i].H1 # Info.Blocks[i].H2
    /\ Len(HashInfoWrite(Info)) = MD5Size + 2 + 2 * (MD5Size + 8)
    /\ Decoded.hi = Info

\* C16 (empty-signature round-trip): for the signature of an absent or empty
\* T, Read of the bytes of Write gives a signature without blocks and with
\* the same BlockSize, so that a FileHashInfo built from it opens S.
C16_EmptySignatureRoundTrip ==
    (pc = "open" /\ ~Signed) =>
        /\ ~Decoded.err
        /\ Decoded.hi.Blocks = <<>>
        /\ Decoded.hi.BlockSize = Info.BlockSize
        /\ ~Open(FileOf(S), Decoded.hi.BlockSize).err

\* C17 (degenerate-signature shortcut, the Analyse of part_000): when the
\* signature is empty or a single short block, for every non-empty S no
\* instruction has the INDEX bit, the Data payloads in order make up S
\* whatever |S| is, and CLOSE carries MD5(S).
C17_DegenerateShortcut ==
    (pc # "sign" /\ IsEmptyPart0(Info) /\ S # <<>>) =>
        /\ \A k \in DOMAIN out : ~IsIndex(out[k])
        /\ \A k \in DOMAIN out : IsClose(out[k]) => out[k].Hash = MD5Sum(S)
        /\ AnalyseReturned => (an.err = "" /\ DataCat(out) = S)

\* The bytes of S covered by the instructions os: len(Data) plus BlockSize
\* per INDEX.
Covered(os) == DataLen(os) + IndexCount(os) * sf.BlockSize

\* The instructions before position k of os.
Before(os, k) == SubSeq(os, 1, k - 1)

\* C18 (empty-signature offsets, the Analyse of rsync.go): with an empty
\* signature every DATA instruction has Off equal to the number of bytes of S
\* emitted by the instructions before it (0, B, 2B, ...).
C18_EmptySignatureOffsets ==
    (pc # "sign" /\ IsEmpty(Info)) =>
        \A k \in DOMAIN out :
            IsData(out[k]) => out[k].Off = DataLen(Before(out, k))

\* C19 (empty source): for an existing source of size 0, Open and Analyse
\* succeed, the sink receives OPEN with Off = 0 and then CLOSE with the MD5
\* of the empty string, and the merger leaves an empty file at the final
\* path.
C19_EmptySource ==
    (S = <<>> /\ pc \in {"done", "abort"}) =>
        /\ pc = "done" /\ an.err = ""
        /\ Len(out) = 2
        /\ out[1].Type = AnalyseTypeOpen /\ out[1].Off = 0
        /\ out[2].Type = AnalyseTypeClose /\ out[2].Hash = MD5Sum(<<>>)
        /\ disk.final = FileOf(<<>>)

\* C20 (matching-path offsets): with a non-empty signature every instruction
\* with DATA and/or INDEX has Off equal to the bytes of S covered by all
\* earlier instructions, and a CLOSE with Data has Off = |S| - len(Data).
C20_MatchingPathOffsets ==
    (pc # "sign" /\ ~IsEmpty(Info)) =>
        \A k \in DOMAIN out :
            /\ (IsData(out[k]) \/ IsIndex(out[k])) =>
                  out[k].Off = Covered(Before(out, k))
            /\ (IsClose(out[k]) /\ IsData(out[k])) =>
                  out[k].Off = Len(S) - Len(out[k].Data)

\* Witness of C20: a finished run whose stream has a flushed literal and,
\* not at the start of S, a matched block behind a literal.
C20_Witness ==
    /\ AnalyseReturned /\ an.err = "" /\ ~IsEmpty(Info)
    /\ \E k \in DOMAIN out : IsIndex(out[k]) /\ IsData(out[k]) /\ out[k].Off > 0
    /\ \E k \in DOMAIN out : out[k].Type = AnalyseTypeData

\* C21 (literal bound): every instruction of Analyse, the final CLOSE that
\* flushes the literal and the window included, carries at most BlockSize
\* bytes of Data.
C21_LiteralBound ==
    \A k \in DOMAIN Emitted : Len(Emitted[k].Data) <= sf.BlockSize

\* The test pipeline under weak fairness: the driver, Analyse and the merger
\* keep taking steps while one is possible.
InitLive == InitWith(TamperMaxT, TamperMaxS, SmallB)

SpecLive == InitLive /\ [][Next]_vars /\ WF_vars(Next)

\* C22 (termination): once Analyse is entered, for every S, signature and
\* BlockSize, with the sink of the pipeline (which does not fail) Analyse
\* eventually hands CLOSE to the sink and returns.
C22_Termination ==
    (pc = "begin") ~>
        (AnalyseReturned /\ out # <<>> /\ IsClose(out[Len(out)]))

\* Analyse is on its matching path: the source is open and the signature has
\* blocks.
Matching == sf.File /\ ~IsEmpty(Info)

\* The next step of Analyse is a FileReader.Read(foff).
AboutToRead == pc = "loop" /\ an.foff < sf.FileSize

\* C23 (hash-once cache): on the matching path every offset passed to
\* FileReader.Read lies in the cached range [Off, Off+len(Buf)) or is
\* Off+len(Buf), every Truncate(n) finds n cached bytes, Read returns
\* S[offset], the cache holds the bytes of S from Off on, and the bytes
\* written to the whole-file hash are a prefix of S in file order, all of S
\* when Analyse has returned.
C23_HashOnceCache ==
    Matching =>
        /\ pc # "panic"
        /\ an.file.Buf = Slice(S, an.file.Off, Len(an.file.Buf))
        /\ an.file.Hash = SubSeq(S, 1, Len(an.file.Hash))
        /\ an.file.Off + Len(an.file.Buf) = Len(an.file.Hash)
        /\ AboutToRead =>
              LET r == ReaderRead(an.file, S, sf.BlockSize, an.foff)
              IN  /\ an.file.Off <= an.foff
                  /\ an.foff <= an.file.Off + Len(an.file.Buf)
                  /\ r.st = "ok" /\ r.one = S[an.foff + 1]
        /\ pc = "cbIndex" => Len(an.wbuf) + Len(an.rbuf) <= Len(an.file.Buf)
        /\ pc = "cbData" => Len(an.wbuf) <= Len(an.file.Buf)
        /\ AnalyseReturned => (an.err = "" /\ an.file.Hash = S)

\* Witness of C23: after a Truncate, Read is about to serve from the cache a
\* byte that was fetched and hashed before, with bytes of S still to fetch.
C23_Witness ==
    /\ Matching /\ AboutToRead
    /\ an.file.Off > 0
    /\ an.foff < an.file.Off + Len(an.file.Buf)
    /\ Len(an.file.Hash) < Len(S)

\* The locals of Analyse at its next call of CheckPass.
AtCheckPass == Fed(an).a

\* C24 (window invariant): at every call of CheckPass, rbuf has at most
\* BlockSize bytes and is S[foff-len(rbuf)+1 .. foff], the adler state is the
\* Adler-32 of the bytes of rbuf, and wbuf has fewer than BlockSize bytes,
\* the bytes of S right before rbuf that no earlier instruction covers.
C24_WindowInvariant ==
    (Matching /\ AboutToRead /\ Fed(an).st = "ok") =>
        LET a == AtCheckPass
            start == a.foff - Len(a.rbuf) + 1
        IN  /\ Len(a.rbuf) <= sf.BlockSize
            /\ a.rbuf = Slice(S, start, Len(a.rbuf))
            /\ a.adler = AdlerWrite(AdlerNew, a.rbuf)
            /\ Len(a.wbuf) < sf.BlockSize
            /\ a.wbuf = Slice(S, Covered(out), Len(a.wbuf))
            /\ Covered(out) + Len(a.wbuf) = start

\* Witness of C24: CheckPass is about to be called on a full window that
\* follows a literal and an earlier instruction, after the window was given
\* up at least once.
C24_Witness ==
    /\ Matching /\ AboutToRead /\ Fed(an).st = "ok"
    /\ Len(AtCheckPass.rbuf) = sf.BlockSize /\ sf.BlockSize >= 2
    /\ AtCheckPass.wbuf # <<>>
    /\ Covered(out) > 0

\* The BlockSize bytes of S from position p on equal a block of the signature.
WindowMatchesAt(p) ==
    /\ p + sf.BlockSize <= Len(S)
    /\ \E k \in DOMAIN Info.Blocks : Info.Blocks[k].H3 = MD5Sum(Slice(S, p, sf.BlockSize))

\* C25 (match completeness): on the matching path no byte S[p] is sent as a
\* literal when the BlockSize bytes from p on equal a block of the signature:
\* every such window is emitted as an INDEX.
C25_MatchCompleteness ==
    Matching =>
        \A k \in DOMAIN out : \A j \in 1..Len(out[k].Data) :
            ~WindowMatchesAt(Covered(Before(out, k)) + j - 1)

\* Witness of C25: a finished run that sent two or more literal bytes and a
\* matched block, with blocks of two bytes or more.
C25_Witness ==
    /\ Matching /\ AnalyseReturned /\ an.err = ""
    /\ sf.BlockSize >= 2 /\ HasIndex /\ DataLen(out) >= 2
    /\ \E k \in DOMAIN out : IsIndex(out[k]) /\ IsData(out[k])

\* The bytes ReadBlock returns for block position k from the file at Path.
BlockAtPath(k) ==
    Slice(disk.final.data, Info.Blocks[k + 1].Off * Info.BlockSize, Info.BlockSize)

\* The errors of the steps of Write.
DataErrors == {"invalid argument"}
IndexErrors == {"not found file", "EOF", "read file data num error"}

\* C26 (reconstructor bit order): Write handles the bits of an instruction
\* in the order OPEN, DATA, INDEX, CLOSE and stops at the first failing
\* step: the temp file (emptied by OPEN) gets Data and then the bytes of
\* block Index, the running hash takes the same bytes in the same order
\* before it is compared with Hash, a failing DATA leaves the temp file as
\* OPEN left it, a failing INDEX leaves Data appended, and after either no
\* comparison and no publication takes place.
C26_BitOrder ==
    [][(calls' = calls + 1 /\ pc' # "panic") =>
          LET h == wire'
              base == IF IsOpen(h) THEN <<>> ELSE disk.tmp.data
              dat == IF IsData(h) THEN h.Data ELSE <<>>
              blk == IF IsIndex(h) THEN BlockAtPath(h.Index) ELSE <<>>
              passed == mg'.pc = "rename" \/ ret' = "hash error"
          IN  /\ (ret' = "" \/ passed) =>
                    /\ disk'.tmp.data = base \o dat \o blk
                    /\ mg'.Hash = mg.Hash \o dat \o blk
              /\ passed => (IsClose(h) /\ (mg'.pc = "rename" <=> h.Hash = MD5Sum(mg'.Hash)))
              /\ ret' \in DataErrors =>
                    (IsData(h) /\ disk'.tmp.data = base /\ mg'.pc = "idle")
              /\ ret' \in IndexErrors =>
                    /\ IsIndex(h) /\ mg'.pc = "idle"
                    /\ disk'.tmp.exists => disk'.tmp.data = base \o dat
                    /\ mg'.Hash = mg.Hash \o dat]_vars

\* Witness of C26: a Write of DATA|INDEX has appended a Data byte and then a
\* block byte that differs from it.
C26_Witness ==
    /\ pc = "merger" /\ ret = ""
    /\ IsData(wire) /\ IsIndex(wire) /\ ~IsClose(wire)
    /\ wire.Data # BlockAtPath(wire.Index)
    /\ disk.tmp.data = wire.Data \o BlockAtPath(wire.Index)

\* C27 (index out of range): a Write whose instruction has the INDEX bit and
\* an Index that is no position of the block list returns an error without
\* crashing, appends no block bytes to the temp file and leaves the file at
\* Path as it was.
C27_IndexOutOfRange ==
    [][(calls' = calls + 1 /\ IsIndex(wire') /\ wire'.Index >= Len(Info.Blocks)) =>
          /\ pc' # "panic"
          /\ ret' \notin {"", "none"}
          /\ disk'.tmp.data = (IF IsOpen(wire') THEN <<>> ELSE disk.tmp.data)
                                 \o (IF IsData(wire') /\ mg'.WFile THEN wire'.Data ELSE <<>>)
          /\ disk'.final = disk.final]_vars

\* C28 (OPEN initialises the running hash): after a merger has processed one
\* OPEN..CLOSE stream, published or refused for its hash, a second
\* OPEN..CLOSE stream whose Hash is the MD5 of the bytes appended to the temp
\* file since the second OPEN is not refused with "hash error".
C28_OpenStartsFreshHash ==
    [][(/\ calls' = calls + 1 /\ calls >= 1 /\ pc' # "panic"
        /\ IsOpen(wire) /\ IsClose(wire) /\ ret \in {"", "hash error"}
        /\ IsOpen(wire') /\ IsClose(wire') /\ disk'.tmp.exists
        /\ wire'.Hash = MD5Sum(disk'.tmp.data)) => ret' # "hash error"]_vars

\* The positions of the blocks that pass all three gates for the window of a.
Hits(a) ==
    LET h == Sum32(a.adler)
    IN  {k \in DOMAIN Info.Blocks :
            /\ Info.Blocks[k].H1 = h % 65536
            /\ Info.Blocks[k].H2 = (h \div 65536) % 65536
            /\ Info.Blocks[k].H3 = MD5Sum(a.rbuf)}

\* The result of the CheckPass call Analyse is about to make.
Lookup == CheckPass(Info, sf.BlockSize, GetMap(Info), AtCheckPass.rbuf, AtCheckPass.adler)

\* C29 (three-gate lookup): at every CheckPass call, a hit is reported
\* exactly when the window has BlockSize bytes and some block has the H1, H2
\* and H3 of the window; the value returned is the Idx of the first such
\* block; and every block of the signature is an entry of the bucket of its
\* H1 in GetMap.
C29_ThreeGateLookup ==
    /\ Signed =>
          \A k \in DOMAIN Info.Blocks :
             /\ Info.Blocks[k].H1 \in DOMAIN GetMap(Info)
             /\ \E j \in DOMAIN GetMap(Info)[Info.Blocks[k].H1] :
                   GetMap(Info)[Info.Blocks[k].H1][j] = Info.Blocks[k]
    /\ (Matching /\ AboutToRead /\ Fed(an).st = "ok") =>
          LET a == AtCheckPass
              first == CHOOSE k \in Hits(a) : \A j \in Hits(a) : k <= j
          IN  /\ Lookup.ok <=> (Len(a.rbuf) >= sf.BlockSize /\ Hits(a) # {})
              /\ Lookup.ok => Lookup.idx = Info.Blocks[first].Idx

\* Witness of C29: CheckPass is about to report a hit on a block that is not
\* the first of its bucket, and another window has been let through as
\* literal.
C29_Witness ==
    /\ Matching /\ AboutToRead /\ Fed(an).st = "ok"
    /\ Lookup.ok
    /\ GetMap(Info)[Sum32(AtCheckPass.adler) % 65536][1].Idx # Lookup.idx
    /\ AtCheckPass.wbuf # <<>>

\* ------------------------------------------- equality of blocks, driven
\* The HashBlock values handed to HashBlockEqual: any 16-bit halves of a
\* checksum and any digest, as HashBlock.Read decodes them from a buffer.
SomeBlocks ==
    {[Idx |-> 0, Off |-> 0, H1 |-> h1, H2 |-> h2, H3 |-> MD5Sum(<<v>>)] :
        h1 \in 1..MaxH, h2 \in 1..MaxH, v \in Byte}

\* Two blocks are at hand, kept as the block lists of one-block signatures
\* would be: Info.Blocks[1] is b1 and Info.Blocks[2] is b2.
InitEqual ==
    /\ T0 = NoFile
    /\ S = <<>>
    /\ B \in SmallB
    /\ disk = [final |-> T0, tmp |-> NoFile]
    /\ \E b1 \in SomeBlocks, b2 \in SomeBlocks :
          Info = [Blocks |-> <<b1, b2>>, MD5 |-> MD5Sum(<<>>), BlockSize |-> B]
    /\ sf = [File |-> FALSE, FileSize |-> 0, BlockSize |-> 0]
    /\ pc = "equal"
    /\ an = NewAnalyse
    /\ wire = NewInfo
    /\ ret = "none"
    /\ out = <<>>
    /\ mg = NewFileMerger
    /\ tampered = FALSE
    /\ calls = 0

\* HashBlockEqual(b1, b2)
CompareBlocks ==
    /\ pc = "equal"
    /\ pc' = "compared"
    /\ ret' = IF HashBlockEqual(Info.Blocks[1], Info.Blocks[2]) THEN "true" ELSE "false"
    /\ UNCHANGED <<T0, S, B, disk, Info, sf, an, wire, out, mg, tampered, calls>>

\* HashInfoEqual(h1, h2) for two signatures of the same file digest and block
\* size, h1 with the single block b1 and h2 with the single block b2.
CompareInfos ==
    /\ pc = "equal"
    /\ pc' = "compared infos"
    /\ ret' = IF HashInfoEqual([Info EXCEPT !.Blocks = <<Info.Blocks[1]>>],
                               [Info EXCEPT !.Blocks = <<Info.Blocks[2]>>])
              THEN "true" ELSE "false"
    /\ UNCHANGED <<T0, S, B, disk, Info, sf, an, wire, out, mg, tampered, calls>>

NextEqual == CompareBlocks \/ CompareInfos

SpecEqual == InitEqual /\ [][NextEqual]_vars

\* C30 (block equality): HashBlockEqual(b1, b2) returns true exactly when
\* b1 and b2 have equal H1, equal H2 and equal H3; blocks that differ only
\* in H2 are reported unequal.
C30_BlockEquality ==
    pc = "compared" =>
       (ret = "true" <=> /\ Info.Blocks[1].H1 = Info.Blocks[2].H1
                         /\ Info.Blocks[1].H2 = Info.Blocks[2].H2
                         /\ Info.Blocks[1].H3 = Info.Blocks[2].H3)

\* ------------------------------------------ the signature wire, truncated
\* The bytes HashBlock.Write appends for one block.
BlockRecordSize == 2 + 2 + 4 + MD5Size

\* A receiver holds the first n bytes of the wire form of the signature of
\* T0, for any n; the bytes are kept in wire.Data until hh.Read consumes them.
InitWire ==
    /\ T0 \in {NoFile} \cup {FileOf(d) : d \in SeqsUpTo(WireMaxT)}
    /\ S = <<>>
    /\ B \in SmallB
    /\ disk = [final |-> T0, tmp |-> NoFile]
    /\ Info = NewHashInfo
    /\ \E n \in 0..(MD5Size + 2 + WireMaxT * BlockRecordSize) :
          /\ n <= Len(HashInfoWrite(GetFileHashInfo(T0, B).hi))
          /\ wire = [NewInfo EXCEPT
                        !.Data = SubSeq(HashInfoWrite(GetFileHashInfo(T0, B).hi), 1, n)]
    /\ sf = [File |-> FALSE, FileSize |-> 0, BlockSize |-> 0]
    /\ pc = "wire"
    /\ an = NewAnalyse
    /\ ret = "none"
    /\ out = <<>>
    /\ mg = NewFileMerger
    /\ tampered = FALSE
    /\ calls = 0

\* hh := NewHashInfo(); err := hh.Read(buf)
ReadWire ==
    /\ pc = "wire"
    /\ LET r == HashInfoRead(NewHashInfo, wire.Data)
       IN  /\ Info' = r.hi
           /\ ret' = IF r.err THEN "EOF" ELSE ""
    /\ pc' = "read"
    /\ UNCHANGED <<T0, S, B, disk, sf, an, wire, out, mg, tampered, calls>>

NextWire == ReadWire

SpecWire == InitWire /\ [][NextWire]_vars

\* Whether n is the length of a header followed by whole block records.
WholeWire(n) ==
    \E k \in 0..n : n = MD5Size + 2 + k * BlockRecordSize

\* C31 (truncated signature wire): HashInfo.Read returns an error for every
\* non-empty input whose length is not 16 + 2 + 24*N; it never reports
\* success for a stream cut inside the digest, the block size or a block
\* record.
C31_TruncatedWire ==
    (pc = "read" /\ wire.Data # <<>> /\ ~WholeWire(Len(wire.Data))) => ret # ""

\* ------------------------------------------------ block sizes of any int
\* The block sizes a caller passes as an int: below, inside and above the
\* range of a uint16.
IntSizes == {-2, -1, 0, 1, 2, 65535, 65536, 65537, 65538}

InitRange == InitWith(TamperMaxT, 0, IntSizes)

NextRange == Sign

SpecRange == InitRange /\ [][NextRange]_vars

\* C32 (block size range): after GetFileHashInfo(T, cb, B) with an int B,
\* either B is in 1..65535 and the signature carries BlockSize = B, or the
\* call was rejected by Open with an error; no B outside the range yields a
\* signature with some other block size.
C32_BlockSizeRange ==
    pc # "sign" =>
       \/ B \in 1..65535 /\ pc = "open" /\ Info.BlockSize = B
       \/ B \notin 1..65535 /\ pc = "abort" /\ an.err = "block size error"

\* ------------------------------------------- the signer's map, iterated
\* The orders in which `for _, v := range this.Blocks` can deliver the
\* values of the map: every arrangement of them.
Orders(s) ==
    {o \in [1..Cardinality(s) -> s] : \A b \in s : \E i \in DOMAIN o : o[i] = b}

\* GetHashInfo without the sort: hbs stays in the order of the iteration.
SliceUnsorted(hbs) == {hbs}

\* sort.Slice(hbs, less) with less comparing Idx: the arrangements of hbs in
\* which no entry comes after one that is less than none before it (the sort
\* is not stable, entries that compare equal may end in any order).
SortSlice(hbs) ==
    {o \in Orders({hbs[i] : i \in DOMAIN hbs}) :
        \A i, j \in DOMAIN o : i < j => ~(o[j].Idx < o[i].Idx)}

\* The signatures GetHashInfo can return for the collected blocks fill, over
\* every iteration order of the map.
GetHashInfoRuns(fill, bsiz) ==
    {[Blocks |-> hbs, MD5 |-> fill.MD5, BlockSize |-> bsiz] :
        hbs \in UNION {SortSlice(o) : o \in Orders(fill.blocks)}}

\* C33 (signer determinism): every run of GetFileHashInfo on T and B returns
\* the signature the first run returned, the same MD5 and the same blocks in
\* the same order with the same Idx and Off, whatever order the map of
\* blocks is iterated in.
C33_SignerDeterminism ==
    Signed =>
       LET bsiz == NewFileHashInfo(B)
           fill == FillHashInfo(T0, bsiz, Open(T0, bsiz))
       IN  GetHashInfoRuns(fill, bsiz) = {Info}

\* Witness of C33: the signature has two blocks, so the map has more than one
\* iteration order, and a repeated chunk was left out.
C33_Witness ==
    /\ Signed
    /\ Len(Info.Blocks) >= 2
    /\ Len(Info.Blocks) < ChunkCount
    /\ Cardinality(Orders({Info.Blocks[i] : i \in DOMAIN Info.Blocks})) >= 2

====
